---- MODULE Spec2Model ----
(***************************************************************************)
(* Model of the gadb Device facade (device.go) and of the Shell handle     *)
(* with its demultiplexer task (shell.go).  The transport layer            *)
(* (transport, syncTransport, shellTransport, the cancelable reader) is    *)
(* the collaborator the facade calls; its primitives are operators and     *)
(* step outcomes here.                                                     *)
(*                                                                         *)
(* A byte string is a sequence: of one-character strings for protocol      *)
(* text, of numbers 0..255 for file and shell payloads.                    *)
(***************************************************************************)
EXTENDS Integers, Sequences, FiniteSets, TLC

VARIABLES
    op,         \* the facade method being executed ("none" before any call)
    pc,         \* position of the caller inside that method
    args,       \* the arguments of the call
    sock,       \* the socket of the call: "none", "open", "closed"
    log,        \* what has happened on that socket, in order
    rx,         \* bytes received on the socket and not yet consumed
    err,        \* the method's err variable
    ret,        \* the value the method returned
    failed,     \* the step whose failure ended the call and the error it gave
    sync,       \* locals of List/Push/Pull: srcPos, dest, devFileInfos, ...
    daemon,     \* device side of the sync service: files, upload in progress
    pushed,     \* history: path and source of the last Push that returned nil
    shell,      \* the Shell handle: st closes, results of Shell.Close calls
    demux,      \* the newShellReader goroutine: pc, frames read, pending data
    pipe,       \* the io.Pipe between demultiplexer and Shell.Reader
    consumer,   \* the reader of Shell.Reader: bytes read, end-of-stream seen
    logcat      \* the Logcat goroutine, its context, dst and exitChan

vars == <<op, pc, args, sock, log, rx, err, ret, failed, sync, daemon, pushed,
          shell, demux, pipe, consumer, logcat>>

facadeVars == <<op, pc, args, sock, log, rx, err, ret, failed>>

----------------------------------------------------------------------------
(* Bounds *)

MaxFrames == 3      \* shell-v2 frames ShellTransport.Read returns
MaxBuf == 2         \* largest buffer the consumer passes to Reader.Read
MaxCloses == 2      \* Shell.Close calls
MaxEntries == 3     \* directory entries the daemon sends for one LIST
MaxLogLines == 2    \* chunks the logcat stream delivers

----------------------------------------------------------------------------
(* Text helpers *)

Min(a, b) == IF a < b THEN a ELSE b

RECURSIVE Join(_, _)
\* strings.Join(ss, sep)
Join(ss, sep) ==
    IF ss = <<>> THEN <<>>
    ELSE IF Len(ss) = 1 THEN Head(ss)
    ELSE Head(ss) \o sep \o Join(Tail(ss), sep)

DigitChars == <<"0","1","2","3","4","5","6","7","8","9","a","b","c","d","e","f">>

RECURSIVE Decimal(_)
\* fmt %d of a non-negative number
Decimal(n) ==
    IF n < 10 THEN <<DigitChars[n + 1]>>
    ELSE Decimal(n \div 10) \o <<DigitChars[(n % 10) + 1]>>

\* value of one hexadecimal digit, either case; -1 when it is not one
HexVal(c) ==
    IF \E i \in 1..16 : DigitChars[i] = c
    THEN (CHOOSE i \in 1..16 : DigitChars[i] = c) - 1
    ELSE IF c = "A" THEN 10 ELSE IF c = "B" THEN 11 ELSE IF c = "C" THEN 12
    ELSE IF c = "D" THEN 13 ELSE IF c = "E" THEN 14 ELSE IF c = "F" THEN 15
    ELSE -1

\* fmt %04x
Hex4(n) ==
    << DigitChars[((n \div 4096) % 16) + 1], DigitChars[((n \div 256) % 16) + 1],
       DigitChars[((n \div 16) % 16) + 1], DigitChars[(n % 16) + 1] >>

\* strconv.ParseUint(s, 16, ..) of four characters; -1 on a syntax error
ParseHex4(s) ==
    IF \E i \in 1..4 : HexVal(s[i]) = -1 THEN -1
    ELSE HexVal(s[1]) * 4096 + HexVal(s[2]) * 256 + HexVal(s[3]) * 16 + HexVal(s[4])

IsSpace(c) == c \in {" ", "\t", "\n", "\r"}

\* strings.TrimSpace(s) == ""
BlankString(s) == \A i \in 1..Len(s) : IsSpace(s[i])

----------------------------------------------------------------------------
(* Errors.  nil is NoErr. *)

NoErr == [kind |-> "nil", msg |-> <<>>]
IOError(what) == [kind |-> "IOError", msg |-> what]
ProtocolError(what) == [kind |-> "ProtocolError", msg |-> what]
RemoteRejected(message) == [kind |-> "RemoteRejected", msg |-> message]
EmptyCommand == [kind |-> "Error", msg |-> <<"e","m","p","t","y">>]

----------------------------------------------------------------------------
(* The transport layer: what the facade's calls do to a socket.            *)

OKAY == <<"O","K","A","Y">>
FAIL == <<"F","A","I","L">>

\* transport.VerifyResponse on the bytes the server has sent: the error it
\* returns and the bytes it leaves unread.
VerifyResponse(buf) ==
    IF Len(buf) < 4 THEN [err |-> IOError(<<"E","O","F">>), rest |-> <<>>]
    ELSE LET status == SubSeq(buf, 1, 4)
             after == SubSeq(buf, 5, Len(buf))
         IN IF status = OKAY THEN [err |-> NoErr, rest |-> after]
            ELSE IF status = FAIL THEN
                IF Len(after) < 4 THEN [err |-> IOError(<<"E","O","F">>), rest |-> <<>>]
                ELSE LET n == ParseHex4(SubSeq(after, 1, 4))
                         body == SubSeq(after, 5, Len(after))
                     IN IF n < 0
                        THEN [err |-> ProtocolError(<<"l","e","n">>), rest |-> body]
                        ELSE IF Len(body) < n
                        THEN [err |-> IOError(<<"E","O","F">>), rest |-> <<>>]
                        ELSE [err |-> RemoteRejected(SubSeq(body, 1, n)),
                              rest |-> SubSeq(body, n + 1, Len(body))]
            ELSE [err |-> ProtocolError(<<"t","o","k","e","n">>), rest |-> after]

\* transport.Close (and syncTransport.Close, shellTransport.Close) on a socket
\* in state s: the socket afterwards and the error returned.
Close(s) == [sock |-> IF s = "none" THEN "none" ELSE "closed", err |-> NoErr]

\* One entry of the socket's history.
Ev(kind, text) == [ev |-> kind, arg |-> text]

\* The entry of a VerifyResponse call: the bytes it had before it, the error
\* it returned and the bytes it left unread.
VerifyEv(buf, r) ==
    [ev |-> "VerifyResponse", arg |-> r.err.kind, buf |-> buf, rest |-> r.rest,
     err |-> r.err]

RECURSIVE CloseAll(_, _, _)
\* the Close calls named in closers, made in order on a socket in state s
\* with history lg
CloseAll(s, lg, closers) ==
    IF closers = <<>> THEN [sock |-> s, log |-> lg]
    ELSE CloseAll(Close(s).sock,
                  Append(lg, [ev |-> "close", arg |-> <<Head(closers), s>>]),
                  Tail(closers))

\* What a server can send in answer to a service request.
Msgs == { <<>>, <<"n","o">>, <<"n","o","t"," ","f","o","u","n","d","!">> }
Trailing == { <<>>, <<"x">> }
StatusReplies ==
         { OKAY \o t : t \in Trailing }
    \cup { FAIL \o Hex4(Len(m)) \o m \o t : m \in Msgs, t \in Trailing }
    \cup { FAIL \o <<"0","0","0","A">> \o <<"n","o","t"," ","f","o","u","n","d","!">> }
    \cup { <<"D","A","T","A">> \o <<"x">>, <<"O","K">>, FAIL \o <<"0","0","0","2","n">> }

SendOutcomes == { NoErr, IOError(<<"w","r","i","t","e">>) }

ReadOutcomes == { NoErr, IOError(<<"r","e","a","d">>) }
DialOutcomes == { NoErr, IOError(<<"d","i","a","l">>) }

\* Output a one-shot service can send after its status token.
Outputs == { <<>>, <<"o","k">> }

----------------------------------------------------------------------------
(* The facade: state before a call, entering a method, returning from it.  *)

NoRet == [err |-> NoErr, val |-> <<>>]
NoFail == [step |-> "none", err |-> NoErr]

SyncIdle == [srcPos |-> 0, chunks |-> <<>>, dest |-> <<>>, devFileInfos |-> <<>>,
             nread |-> 0, answers |-> <<>>]
NoShell == [live |-> FALSE, closes |-> <<>>]
NoDemux == [pc |-> "none", tasks |-> 0, arrived |-> <<>>, ended |-> "no", pwClose |-> 0,
            lateWrites |-> 0]
NoPipe == [data |-> <<>>, closed |-> FALSE]
NoConsumer == [got |-> <<>>, eof |-> FALSE]
NoLogcat == [pc |-> "none", buf |-> <<>>, cancelled |-> FALSE, dst |-> <<>>, exitSent |-> FALSE,
             nread |-> 0, lateWrites |-> 0]

\* No method is running and no task of an earlier call is.
Quiescent ==
    /\ pc \in {"idle", "returned"}
    /\ demux.pc \in {"none", "done"}
    /\ logcat.pc \in {"none", "done"}
    /\ shell.live => consumer.eof

\* The caller invokes method o with arguments a; first is its first step.
\* The daemon keeps its files; an upload or download belongs to one connection.
Enter(o, a, first) ==
    /\ Quiescent
    /\ op' = o /\ args' = a /\ pc' = first
    /\ sock' = "none" /\ log' = <<>> /\ rx' = <<>>
    /\ err' = NoErr /\ ret' = NoRet /\ failed' = NoFail
    /\ sync' = SyncIdle
    /\ shell' = NoShell /\ demux' = NoDemux /\ pipe' = NoPipe
    /\ consumer' = NoConsumer /\ logcat' = NoLogcat
    /\ daemon' = [files |-> daemon.files, upload |-> [open |-> FALSE, arg |-> <<>>,
                                                     data |-> <<>>, mtime |-> 0],
                  sendPos |-> 0]
    /\ UNCHANGED pushed

\* The method returns (e, v); the deferred and explicit Close calls named in
\* closers run, in order, on the socket whose history so far is lg.
Return(lg, e, v, closers) ==
    /\ pc' = "returned"
    /\ err' = e
    /\ ret' = [err |-> e, val |-> v]
    /\ LET c == CloseAll(sock, lg, closers)
       IN sock' = c.sock /\ log' = c.log

\* A step failed with error e: remember which, then return.
FailAt(step, lg, e, v, closers) ==
    /\ failed' = [step |-> step, err |-> e]
    /\ Return(lg, e, v, closers)

----------------------------------------------------------------------------
(* Device.createDeviceTransport, inlined in each caller.                   *)

serial == <<"d","1">>
HostTransport == <<"h","o","s","t",":","t","r","a","n","s","p","o","r","t",":">> \o serial

\* Where each method continues once createDeviceTransport has succeeded.
AfterTransport(o) ==
    CASE o = "executeCommand" -> "executeCommand_Send"
      [] o = "RunShellCommandWithBytes" -> "executeCommand_Send"
      [] o = "RunShellCommandAsync" -> "RunShellCommandAsync_Send"
      [] o = "List" -> "List_CreateSyncTransport"
      [] o = "Push" -> "Push_CreateSyncTransport"
      [] o = "Pull" -> "Pull_CreateSyncTransport"
      [] o = "Logcat" -> "Logcat_Send"

\* tp, err = newTransport(host:port)
createDeviceTransport_newTransport ==
    /\ pc = "createDeviceTransport"
    /\ \E e \in DialOutcomes :
        IF e = NoErr
        THEN /\ sock' = "open"
             /\ log' = Append(log, Ev("open", <<>>))
             /\ pc' = "createDeviceTransport_Send"
             /\ UNCHANGED <<err, ret, failed>>
        ELSE FailAt("newTransport", log, e, <<>>, <<>>)
    /\ UNCHANGED <<op, args, rx, sync, daemon, pushed, shell, demux, pipe, consumer, logcat>>

\* err = tp.Send("host:transport:<serial>"); on failure return transport{}, err
createDeviceTransport_Send ==
    /\ pc = "createDeviceTransport_Send"
    /\ \E e \in SendOutcomes :
        IF e = NoErr
        THEN /\ log' = Append(log, Ev("Send", HostTransport))
             /\ pc' = "createDeviceTransport_VerifyResponse"
             /\ UNCHANGED <<sock, err, ret, failed>>
        ELSE FailAt("createDeviceTransport.Send", log, e, <<>>, <<>>)
    /\ UNCHANGED <<op, args, rx, sync, daemon, pushed, shell, demux, pipe, consumer, logcat>>

\* err = tp.VerifyResponse(); return tp, err.  Every caller returns the error
\* at once when it is not nil.
createDeviceTransport_VerifyResponse ==
    /\ pc = "createDeviceTransport_VerifyResponse"
    /\ \E reply \in StatusReplies :
        LET r == VerifyResponse(rx \o reply)
            lg == Append(log, VerifyEv(rx \o reply, r))
        IN /\ rx' = r.rest
           /\ IF r.err = NoErr
              THEN /\ log' = lg
                   /\ pc' = AfterTransport(op)
                   /\ UNCHANGED <<sock, err, ret, failed>>
              ELSE FailAt("createDeviceTransport.VerifyResponse", lg, r.err, <<>>, <<>>)
    /\ UNCHANGED <<op, args, sync, daemon, pushed, shell, demux, pipe, consumer, logcat>>

createDeviceTransport ==
    \/ createDeviceTransport_newTransport
    \/ createDeviceTransport_Send
    \/ createDeviceTransport_VerifyResponse

----------------------------------------------------------------------------
(* Device.executeCommand(command, onlyVerifyResponse...)                   *)

Commands == { <<"s","h","e","l","l",":","l","s">> }

executeCommand_Call ==
    \E c \in Commands, only \in BOOLEAN :
        Enter("executeCommand", [command |-> c, onlyVerifyResponse |-> only],
              "createDeviceTransport")

\* executeCommand reading the payload right after the Send, unverified.
executeCommand_Send_noVerify ==
    /\ pc = "executeCommand_Send"
    /\ \E e \in SendOutcomes :
        IF e = NoErr
        THEN /\ log' = Append(log, Ev("Send", args.command))
             /\ pc' = "executeCommand_ReadBytesAll"
             /\ UNCHANGED <<sock, err, ret, failed>>
        ELSE FailAt("executeCommand.Send", log, e, <<>>, <<"tp.Close">>)
    /\ UNCHANGED <<op, args, rx, sync, daemon, pushed, shell, demux, pipe, consumer, logcat>>

\* defer tp.Close() is in force from here on.
executeCommand_Send ==
    /\ pc = "executeCommand_Send"
    /\ \E e \in SendOutcomes :
        IF e = NoErr
        THEN /\ log' = Append(log, Ev("Send", args.command))
             /\ pc' = "executeCommand_VerifyResponse"
             /\ UNCHANGED <<sock, err, ret, failed>>
        ELSE FailAt("executeCommand.Send", log, e, <<>>, <<"tp.Close">>)
    /\ UNCHANGED <<op, args, rx, sync, daemon, pushed, shell, demux, pipe, consumer, logcat>>

\* executeCommand going on to read the payload when VerifyResponse failed.
executeCommand_VerifyResponse_ignoresError ==
    /\ pc = "executeCommand_VerifyResponse"
    /\ \E reply \in StatusReplies :
        LET r == VerifyResponse(rx \o reply)
            lg == Append(log, VerifyEv(rx \o reply, r))
        IN /\ rx' = r.rest
           /\ IF args.onlyVerifyResponse
              THEN Return(lg, r.err, <<>>, <<"tp.Close">>) /\ UNCHANGED failed
              ELSE /\ log' = lg
                   /\ pc' = "executeCommand_ReadBytesAll"
                   /\ UNCHANGED <<sock, err, ret, failed>>
    /\ UNCHANGED <<op, args, sync, daemon, pushed, shell, demux, pipe, consumer, logcat>>

executeCommand_VerifyResponse ==
    /\ pc = "executeCommand_VerifyResponse"
    /\ \E reply \in StatusReplies :
        LET r == VerifyResponse(rx \o reply)
            lg == Append(log, VerifyEv(rx \o reply, r))
        IN /\ rx' = r.rest
           /\ IF r.err # NoErr
              THEN FailAt("executeCommand.VerifyResponse", lg, r.err, <<>>, <<"tp.Close">>)
              ELSE IF args.onlyVerifyResponse
              THEN Return(lg, NoErr, <<>>, <<"tp.Close">>) /\ UNCHANGED failed
              ELSE /\ log' = lg
                   /\ pc' = "executeCommand_ReadBytesAll"
                   /\ UNCHANGED <<sock, err, ret, failed>>
    /\ UNCHANGED <<op, args, sync, daemon, pushed, shell, demux, pipe, consumer, logcat>>

\* raw, err = tp.ReadBytesAll(); return
executeCommand_ReadBytesAll ==
    /\ pc = "executeCommand_ReadBytesAll"
    /\ \E more \in Outputs, e \in ReadOutcomes :
        LET raw == rx \o more
            lg == Append(log, Ev("ReadBytesAll", raw))
        IN /\ rx' = <<>>
           /\ IF e = NoErr
              THEN Return(lg, NoErr, raw, <<"tp.Close">>) /\ UNCHANGED failed
              ELSE FailAt("executeCommand.ReadBytesAll", lg, e, raw, <<"tp.Close">>)
    /\ UNCHANGED <<op, args, sync, daemon, pushed, shell, demux, pipe, consumer, logcat>>

executeCommand ==
    \/ executeCommand_Call
    \/ executeCommand_Send
    \/ executeCommand_VerifyResponse
    \/ executeCommand_ReadBytesAll

----------------------------------------------------------------------------
(* Device.RunShellCommandAsync(cmd, args...)                               *)

\* The calls made: cmd and args.  Three of them join to a blank command.
ShellCalls ==
    { [cmd |-> <<>>, args |-> <<>>],
      [cmd |-> <<" ">>, args |-> <<>>],
      [cmd |-> <<>>, args |-> << <<>> >>],
      [cmd |-> <<"l","s">>, args |-> << <<"-","l">> >>] }
ShellPrefix == <<"s","h","e","l","l",":">>
WrapOutcomes == { NoErr, IOError(<<"w","r","a","p">>) }

\* cmd after "if len(args) > 0 { cmd = fmt.Sprintf("%s %s", cmd, strings.Join(args, " ")) }"
JoinedCommand(cmd, as) == IF Len(as) > 0 THEN cmd \o <<" ">> \o Join(as, <<" ">>) ELSE cmd

RunShellCommandAsync_Call ==
    \E call \in ShellCalls : Enter("RunShellCommandAsync", call, "RunShellCommandAsync")

\* RunShellCommandAsync connecting without the empty-command check.
RunShellCommandAsync_check_none ==
    /\ pc = "RunShellCommandAsync"
    /\ args' = [cmd |-> JoinedCommand(args.cmd, args.args), args |-> args.args]
    /\ pc' = "createDeviceTransport"
    /\ UNCHANGED <<sock, log, err, ret, failed>>
    /\ UNCHANGED <<op, rx, sync, daemon, pushed, shell, demux, pipe, consumer, logcat>>

\* the join of the arguments and the empty-command check
RunShellCommandAsync_check ==
    /\ pc = "RunShellCommandAsync"
    /\ LET cmd == JoinedCommand(args.cmd, args.args)
       IN /\ args' = [cmd |-> cmd, args |-> args.args]
          /\ IF BlankString(cmd)
             THEN FailAt("empty", log, EmptyCommand, <<>>, <<>>)
             ELSE /\ pc' = "createDeviceTransport"
                  /\ UNCHANGED <<sock, log, err, ret, failed>>
    /\ UNCHANGED <<op, rx, sync, daemon, pushed, shell, demux, pipe, consumer, logcat>>

\* RunShellCommandAsync returning the Send error without tp.Close().
RunShellCommandAsync_Send_noClose ==
    /\ pc = "RunShellCommandAsync_Send"
    /\ \E e \in SendOutcomes :
        IF e = NoErr
        THEN /\ log' = Append(log, Ev("Send", ShellPrefix \o args.cmd))
             /\ pc' = "RunShellCommandAsync_VerifyResponse"
             /\ UNCHANGED <<sock, err, ret, failed>>
        ELSE FailAt("RunShellCommandAsync.Send", log, e, <<>>, <<>>)
    /\ UNCHANGED <<op, args, rx, sync, daemon, pushed, shell, demux, pipe, consumer, logcat>>

\* err = tp.Send("shell:<cmd>"); on failure tp.Close() and return nil, err
RunShellCommandAsync_Send ==
    /\ pc = "RunShellCommandAsync_Send"
    /\ \E e \in SendOutcomes :
        IF e = NoErr
        THEN /\ log' = Append(log, Ev("Send", ShellPrefix \o args.cmd))
             /\ pc' = "RunShellCommandAsync_VerifyResponse"
             /\ UNCHANGED <<sock, err, ret, failed>>
        ELSE FailAt("RunShellCommandAsync.Send", log, e, <<>>, <<"tp.Close">>)
    /\ UNCHANGED <<op, args, rx, sync, daemon, pushed, shell, demux, pipe, consumer, logcat>>

RunShellCommandAsync_VerifyResponse ==
    /\ pc = "RunShellCommandAsync_VerifyResponse"
    /\ \E reply \in StatusReplies :
        LET r == VerifyResponse(rx \o reply)
            lg == Append(log, VerifyEv(rx \o reply, r))
        IN /\ rx' = r.rest
           /\ IF r.err # NoErr
              THEN FailAt("RunShellCommandAsync.VerifyResponse", lg, r.err, <<>>,
                          <<"tp.Close">>)
              ELSE /\ log' = lg
                   /\ pc' = "RunShellCommandAsync_CreateShellTransport"
                   /\ UNCHANGED <<sock, err, ret, failed>>
    /\ UNCHANGED <<op, args, sync, daemon, pushed, shell, demux, pipe, consumer, logcat>>

\* RunShellCommandAsync writing the request through tp once more after the
\* socket has been wrapped.
RunShellCommandAsync_CreateShellTransport_thenSend ==
    /\ pc = "RunShellCommandAsync_CreateShellTransport"
    /\ rx' = <<>>
    /\ \E e \in WrapOutcomes :
        IF e # NoErr
        THEN /\ FailAt("CreateShellTransport", log, e, <<>>, <<"tp.Close">>)
             /\ UNCHANGED <<shell, demux, pipe>>
        ELSE /\ Return(log \o <<Ev("CreateShellTransport", <<>>),
                                Ev("Send", ShellPrefix \o args.cmd)>>,
                       NoErr, <<"Shell">>, <<>>)
             /\ shell' = [live |-> TRUE, closes |-> <<>>]
             /\ demux' = [demux EXCEPT !.pc = "Read", !.tasks = @ + 1]
             /\ pipe' = NoPipe
             /\ UNCHANGED failed
    /\ UNCHANGED <<op, args, sync, daemon, pushed, consumer, logcat>>

\* shTp, err = tp.CreateShellTransport(): the socket is wrapped, and what it
\* has received belongs to the frame stream from here on.  On success
\* shell = &Shell{st: shTp}; shell.Reader = newShellReader(&shell.st), which
\* makes the pipe and starts the demultiplexer; return shell, nil.
RunShellCommandAsync_CreateShellTransport ==
    /\ pc = "RunShellCommandAsync_CreateShellTransport"
    /\ rx' = <<>>
    /\ \E e \in WrapOutcomes :
        IF e # NoErr
        THEN /\ FailAt("CreateShellTransport", log, e, <<>>, <<"tp.Close">>)
             /\ UNCHANGED <<shell, demux, pipe>>
        ELSE /\ Return(Append(log, Ev("CreateShellTransport", <<>>)), NoErr, <<"Shell">>, <<>>)
             /\ shell' = [live |-> TRUE, closes |-> <<>>]
             /\ demux' = [demux EXCEPT !.pc = "Read", !.tasks = @ + 1]
             /\ pipe' = NoPipe
             /\ UNCHANGED failed
    /\ UNCHANGED <<op, args, sync, daemon, pushed, consumer, logcat>>

RunShellCommandAsync ==
    \/ RunShellCommandAsync_Call
    \/ RunShellCommandAsync_check
    \/ RunShellCommandAsync_Send
    \/ RunShellCommandAsync_VerifyResponse
    \/ RunShellCommandAsync_CreateShellTransport

----------------------------------------------------------------------------
(* Device.RunShellCommandWithBytes(cmd, args...), which RunShellCommand     *)
(* wraps.                                                                  *)

RunShellCommandWithBytes_Call ==
    \E call \in ShellCalls :
        Enter("RunShellCommandWithBytes", call, "RunShellCommandWithBytes")

\* the join of the arguments and the empty-command check, then
\* d.executeCommand(fmt.Sprintf("shell:%s", cmd))
RunShellCommandWithBytes_check ==
    /\ pc = "RunShellCommandWithBytes"
    /\ LET cmd == JoinedCommand(args.cmd, args.args)
       IN IF BlankString(cmd)
          THEN /\ args' = [cmd |-> cmd, args |-> args.args]
               /\ FailAt("empty", log, EmptyCommand, <<>>, <<>>)
          ELSE /\ args' = [cmd |-> cmd, args |-> args.args,
                           command |-> ShellPrefix \o cmd,
                           onlyVerifyResponse |-> FALSE]
               /\ pc' = "createDeviceTransport"
               /\ UNCHANGED <<sock, log, err, ret, failed>>
    /\ UNCHANGED <<op, rx, sync, daemon, pushed, shell, demux, pipe, consumer, logcat>>

RunShellCommandWithBytes ==
    \/ RunShellCommandWithBytes_Call
    \/ RunShellCommandWithBytes_check

----------------------------------------------------------------------------
(* Shell.Close, the demultiplexer of newShellReader, and the reader of     *)
(* Shell.Reader.                                                           *)

shellStdin == 0
shellStdout == 1
shellStderr == 2
shellExit == 3
shellCloseStdin == 4
shellWindowSizeChange == 5
shellInvalid == 255

\* The frames the daemon can send as the k-th frame of a session.  Payload
\* bytes tell the frames apart.
ShellFrames(k) ==
         { [id |-> i, data |-> d] : i \in {shellStdout, shellStderr},
                                    d \in { <<>>, <<k, k + 10>> } }
    \cup { [id |-> shellExit, data |-> <<0>>] }
    \cup { [id |-> i, data |-> <<k + 20>>] :
              i \in {shellStdin, shellCloseStdin, shellWindowSizeChange, shellInvalid} }

\* Shell.Close refusing a second call with an error.
Shell_Close_onceOnly ==
    /\ shell.live
    /\ Len(shell.closes) < MaxCloses
    /\ LET r == Close(sock)
       IN /\ sock' = r.sock
          /\ log' = Append(log, [ev |-> "close", arg |-> <<"Shell.Close", sock>>])
          /\ shell' = [shell EXCEPT !.closes =
                          Append(@, IF sock = "closed" THEN IOError(<<"c","l","o","s","e","d">>)
                                    ELSE r.err)]
    /\ UNCHANGED <<op, pc, args, rx, err, ret, failed, sync, daemon, pushed, demux, pipe,
                   consumer, logcat>>

\* Shell.Close returning nil without closing the transport.
Shell_Close_noop ==
    /\ shell.live
    /\ Len(shell.closes) < MaxCloses
    /\ shell' = [shell EXCEPT !.closes = Append(@, NoErr)]
    /\ UNCHANGED <<op, pc, args, sock, log, rx, err, ret, failed, sync, daemon, pushed, demux,
                   pipe, consumer, logcat>>

\* func (s *Shell) Close() error { return s.st.Close() }
Shell_Close ==
    /\ shell.live
    /\ Len(shell.closes) < MaxCloses
    /\ LET r == Close(sock)
       IN /\ sock' = r.sock
          /\ log' = Append(log, [ev |-> "close", arg |-> <<"Shell.Close", sock>>])
          /\ shell' = [shell EXCEPT !.closes = Append(@, r.err)]
    /\ UNCHANGED <<op, pc, args, rx, err, ret, failed, sync, daemon, pushed, demux, pipe,
                   consumer, logcat>>

\* Dispatch with the exitCode case leaving only the switch, not the loop.
Dispatch_exitBreaks(f) ==
    IF f.id \in {shellStdout, shellStderr}
    THEN IF Len(f.data) > 0 THEN "Write" ELSE "Read"
    ELSE "Read"

\* Dispatch ending the stream on a closeStdin frame as on exitCode.
Dispatch_closeStdinEnds(f) ==
    IF f.id \in {shellStdout, shellStderr}
    THEN IF Len(f.data) > 0 THEN "Write" ELSE "Read"
    ELSE IF f.id \in {shellExit, shellCloseStdin} THEN "return"
    ELSE "Read"

\* What the demultiplexer does with a frame st.Read returned: the switch.
Dispatch(f) ==
    IF f.id \in {shellStdout, shellStderr}
    THEN IF Len(f.data) > 0 THEN "Write" ELSE "Read"
    ELSE IF f.id = shellExit THEN "return"
    ELSE "Read"

\* msgType, data, err := st.Read() returns a frame; the switch on msgType.
\* pw.Write(data) starts here and lasts until the reader has taken all of data.
newShellReader_Read_frame ==
    /\ demux.pc = "Read"
    /\ sock = "open"
    /\ Len(demux.arrived) < MaxFrames
    /\ \E f \in ShellFrames(Len(demux.arrived) + 1) :
        LET next == Dispatch(f)
        IN /\ demux' = [demux EXCEPT
                          !.pc = next,
                          !.arrived = Append(@, f),
                          !.ended = IF next = "return" THEN "exit" ELSE @,
                          !.lateWrites = IF next = "Write" /\ pipe.closed
                                         THEN @ + 1 ELSE @]
           /\ pipe' = IF next = "Write" /\ ~pipe.closed
                      THEN [pipe EXCEPT !.data = f.data] ELSE pipe
    /\ log' = Append(log, Ev("st.Read", <<>>))
    /\ UNCHANGED <<op, pc, args, sock, rx, err, ret, failed, sync, daemon, pushed, shell,
                   consumer, logcat>>

\* st.Read() fails because the peer ended or reset the connection.
newShellReader_Read_error ==
    /\ demux.pc = "Read"
    /\ sock = "open"
    /\ demux' = [demux EXCEPT !.pc = "return", !.ended = "error"]
    /\ UNCHANGED <<facadeVars, sync, daemon, pushed, shell, pipe, consumer, logcat>>

\* The read-error path returning without the pipe writer being closed.
newShellReader_Read_closed_noDefer ==
    /\ demux.pc = "Read"
    /\ sock = "closed"
    /\ demux' = [demux EXCEPT !.pc = "done", !.ended = "closed"]
    /\ UNCHANGED <<facadeVars, sync, daemon, pushed, shell, pipe, consumer, logcat>>

\* st.Read() fails because Shell.Close has closed the socket.
newShellReader_Read_closed ==
    /\ demux.pc = "Read"
    /\ sock = "closed"
    /\ demux' = [demux EXCEPT !.pc = "return", !.ended = "closed"]
    /\ UNCHANGED <<facadeVars, sync, daemon, pushed, shell, pipe, consumer, logcat>>

\* pw.Write(data) returning at once, as a write into a buffer would.
newShellReader_Write_done_buffered ==
    /\ demux.pc = "Write"
    /\ demux' = [demux EXCEPT !.pc = IF pipe.closed THEN "return" ELSE "Read"]
    /\ UNCHANGED <<facadeVars, sync, daemon, pushed, shell, pipe, consumer, logcat>>

\* pw.Write(data) returns once the reader has taken all of data (or at once
\* with an error, the pipe being closed), and the loop reads the next frame.
newShellReader_Write_done ==
    /\ demux.pc = "Write"
    /\ pipe.data = <<>>
    /\ demux' = [demux EXCEPT !.pc = IF pipe.closed THEN "return" ELSE "Read"]
    /\ UNCHANGED <<facadeVars, sync, daemon, pushed, shell, pipe, consumer, logcat>>

\* return: the deferred pw.Close()
newShellReader_return ==
    /\ demux.pc = "return"
    /\ demux' = [demux EXCEPT !.pc = "done", !.pwClose = @ + 1]
    /\ pipe' = [pipe EXCEPT !.closed = TRUE]
    /\ UNCHANGED <<facadeVars, sync, daemon, pushed, shell, consumer, logcat>>

newShellReader ==
    \/ newShellReader_Read_frame
    \/ newShellReader_Read_error
    \/ newShellReader_Read_closed
    \/ newShellReader_Write_done
    \/ newShellReader_return

\* io.Copy(dst, sh.Reader): one Read with a buffer of n bytes takes what the
\* pending Write offers, at most n bytes of it.
Reader_Read_data ==
    /\ shell.live
    /\ ~consumer.eof
    /\ pipe.data # <<>>
    /\ \E n \in 1..MaxBuf :
        LET k == Min(n, Len(pipe.data))
        IN /\ consumer' = [consumer EXCEPT !.got = @ \o SubSeq(pipe.data, 1, k)]
           /\ pipe' = [pipe EXCEPT !.data = SubSeq(@, k + 1, Len(@))]
    /\ UNCHANGED <<facadeVars, sync, daemon, pushed, shell, demux, logcat>>

\* A Read on the closed pipe reports end-of-stream and the copy loop ends.
Reader_Read_EOF ==
    /\ shell.live
    /\ ~consumer.eof
    /\ pipe.data = <<>>
    /\ pipe.closed
    /\ consumer' = [consumer EXCEPT !.eof = TRUE]
    /\ UNCHANGED <<facadeVars, sync, daemon, pushed, shell, demux, pipe, logcat>>

Reader_Read == Reader_Read_data \/ Reader_Read_EOF

----------------------------------------------------------------------------
(* The sync service: CreateSyncTransport and the frames of LIST/SEND/RECV. *)

SyncRequest == <<"s","y","n","c",":">>

\* tp.CreateSyncTransport(): Send("sync:") with outcome e, then VerifyResponse
\* on the answer reply.  The error, the history and the unread bytes after it.
CreateSyncTransport(lg, buf, e, reply) ==
    IF e # NoErr THEN [err |-> e, log |-> lg, rx |-> buf]
    ELSE LET r == VerifyResponse(buf \o reply)
         IN [err |-> r.err,
             log |-> lg \o <<Ev("Send", SyncRequest), VerifyEv(buf \o reply, r)>>,
             rx |-> r.rest]

\* "sync, err = tp.CreateSyncTransport(); if err != nil return" in method o,
\* which goes on at next.  defer tp.Close() is in force; on success
\* defer sync.Close() is too, and what was received belongs to the frame
\* stream from here on.
SyncOpen(o, next) ==
    /\ pc = o \o "_CreateSyncTransport"
    /\ \E e \in SendOutcomes, reply \in StatusReplies :
        LET r == CreateSyncTransport(log, rx, e, reply)
        IN IF r.err # NoErr
           THEN /\ rx' = r.rx
                /\ FailAt("CreateSyncTransport", r.log, r.err, <<>>, <<"tp.Close">>)
           ELSE /\ rx' = <<>>
                /\ log' = r.log
                /\ pc' = next
                /\ UNCHANGED <<sock, err, ret, failed>>
    /\ UNCHANGED <<op, args, sync, daemon, pushed, shell, demux, pipe, consumer, logcat>>

\* The closes deferred by List, Push and Pull once the sync transport exists:
\* sync.Close() runs first, tp.Close() second.
SyncDefers == <<"sync.Close", "tp.Close">>

Paths == { <<"/","a">>, <<"/","b">> }

----------------------------------------------------------------------------
(* Device.List(remotePath)                                                 *)

ZeroEntry == [Name |-> <<>>, Mode |-> 0, Size |-> 0, LastModified |-> 0]
Entries == { [Name |-> <<"f">>, Mode |-> 33188, Size |-> 5, LastModified |-> 7],
             [Name |-> <<"d">>, Mode |-> 16877, Size |-> 0, LastModified |-> 9] }

\* What sync.ReadDirectoryEntry can return as the k-th answer to a LIST.
DirectoryAnswers(k) ==
         { [entry |-> ZeroEntry, err |-> NoErr] }
    \cup { [entry |-> ZeroEntry, err |-> e] : e \in ReadOutcomes \ {NoErr} }
    \cup { [entry |-> e, err |-> NoErr] : e \in IF k <= MaxEntries THEN Entries ELSE {} }

List_Call ==
    \E path \in Paths : Enter("List", [remotePath |-> path], "createDeviceTransport")

List_CreateSyncTransport == SyncOpen("List", "List_Send")

\* err = sync.Send("LIST", remotePath); devFileInfos = make([]DeviceFileInfo, 0)
List_Send ==
    /\ pc = "List_Send"
    /\ \E e \in SendOutcomes :
        IF e = NoErr
        THEN /\ log' = Append(log, Ev("sync.Send", <<"LIST">> \o args.remotePath))
             /\ pc' = "List_ReadDirectoryEntry"
             /\ UNCHANGED <<sock, err, ret, failed>>
        ELSE FailAt("List.Send", log, e, <<>>, SyncDefers)
    /\ UNCHANGED <<op, args, rx, sync, daemon, pushed, shell, demux, pipe, consumer, logcat>>

\* List's loop with the sentinel appended before it is tested.
List_ReadDirectoryEntry_keepsSentinel ==
    /\ pc = "List_ReadDirectoryEntry"
    /\ \E a \in DirectoryAnswers(sync.nread + 1) :
        LET lg == Append(log, Ev("sync.ReadDirectoryEntry", a.err.kind))
            got == [sync EXCEPT !.nread = @ + 1, !.answers = Append(@, a)]
        IN IF a.err # NoErr
           THEN /\ sync' = got
                /\ FailAt("ReadDirectoryEntry", lg, a.err, sync.devFileInfos, SyncDefers)
           ELSE IF a.entry = ZeroEntry
           THEN /\ sync' = [got EXCEPT !.devFileInfos = Append(@, a.entry)]
                /\ Return(lg, NoErr, Append(sync.devFileInfos, a.entry), SyncDefers)
                /\ UNCHANGED failed
           ELSE /\ sync' = [got EXCEPT !.devFileInfos = Append(@, a.entry)]
                /\ log' = lg
                /\ UNCHANGED <<pc, sock, err, ret, failed>>
    /\ UNCHANGED <<op, args, rx, daemon, pushed, shell, demux, pipe, consumer, logcat>>

\* for entry, err = sync.ReadDirectoryEntry(); err == nil; ... {
\*     if entry == (DeviceFileInfo{}) { break }
\*     devFileInfos = append(devFileInfos, entry) }
\* return
List_ReadDirectoryEntry ==
    /\ pc = "List_ReadDirectoryEntry"
    /\ \E a \in DirectoryAnswers(sync.nread + 1) :
        LET lg == Append(log, Ev("sync.ReadDirectoryEntry", a.err.kind))
            got == [sync EXCEPT !.nread = @ + 1, !.answers = Append(@, a)]
        IN IF a.err # NoErr
           THEN /\ sync' = got
                /\ FailAt("ReadDirectoryEntry", lg, a.err, sync.devFileInfos, SyncDefers)
           ELSE IF a.entry = ZeroEntry
           THEN /\ sync' = got
                /\ Return(lg, NoErr, sync.devFileInfos, SyncDefers)
                /\ UNCHANGED failed
           ELSE /\ sync' = [got EXCEPT !.devFileInfos = Append(@, a.entry)]
                /\ log' = lg
                /\ UNCHANGED <<pc, sock, err, ret, failed>>
    /\ UNCHANGED <<op, args, rx, daemon, pushed, shell, demux, pipe, consumer, logcat>>

List ==
    \/ List_Call
    \/ List_CreateSyncTransport
    \/ List_Send
    \/ List_ReadDirectoryEntry

----------------------------------------------------------------------------
(* The daemon's side of SEND and RECV.                                     *)

SyncMaxChunkSize == 65536

\* The content of a file or stream is written as the extents of named byte
\* strings it is made of, in order: <<[of |-> "source", from |-> 0,
\* len |-> 3]>> is the first three bytes of the byte string "source".  Every
\* byte of a named string is taken to differ from every other, so two
\* contents are the same bytes exactly when their extents are equal.
Extent(name, from, n) ==
    IF n = 0 THEN <<>> ELSE <<[of |-> name, from |-> from, len |-> n]>>

RECURSIVE BytesLen(_)
BytesLen(b) == IF b = <<>> THEN 0 ELSE Head(b).len + BytesLen(Tail(b))

\* a followed by b; adjoining extents of one string become one extent
BytesCat(a, b) ==
    IF a = <<>> THEN b
    ELSE IF b = <<>> THEN a
    ELSE LET x == a[Len(a)]
             y == b[1]
         IN IF x.of = y.of /\ x.from + x.len = y.from
            THEN SubSeq(a, 1, Len(a) - 1) \o <<[x EXCEPT !.len = @ + y.len]>> \o Tail(b)
            ELSE a \o b

RECURSIVE BytesSub(_, _, _)
\* the n bytes of b after its first pos bytes
BytesSub(b, pos, n) ==
    IF n = 0 \/ b = <<>> THEN <<>>
    ELSE LET h == Head(b)
         IN IF pos >= h.len THEN BytesSub(Tail(b), pos - h.len, n)
            ELSE LET k == Min(n, h.len - pos)
                 IN BytesCat(Extent(h.of, h.from + pos, k), BytesSub(Tail(b), 0, n - k))

Absent == [exists |-> FALSE, data |-> <<>>, mode |-> 0, mtime |-> 0]
NoUpload == [open |-> FALSE, arg |-> <<>>, data |-> <<>>, mtime |-> 0]
NoPushed == [path |-> <<>>, source |-> <<>>, valid |-> FALSE]

RECURSIVE ParseDecimal(_)
\* the number a string of decimal digits denotes; -1 when it is not one
ParseDecimal(ds) ==
    IF ds = <<>> THEN -1
    ELSE LET d == HexVal(ds[Len(ds)])
         IN IF d < 0 \/ d > 9 THEN -1
            ELSE IF Len(ds) = 1 THEN d
            ELSE LET hi == ParseDecimal(SubSeq(ds, 1, Len(ds) - 1))
                 IN IF hi < 0 THEN -1 ELSE hi * 10 + d

\* The daemon splits the SEND argument "<path>,<mode>" at its last comma.
ParseSendArg(arg) ==
    LET commas == { i \in 1..Len(arg) : arg[i] = "," }
    IN IF commas = {} THEN [ok |-> FALSE, path |-> <<>>, mode |-> 0]
       ELSE LET i == CHOOSE c \in commas : \A d \in commas : d <= c
                m == ParseDecimal(SubSeq(arg, i + 1, Len(arg)))
            IN [ok |-> m >= 0, path |-> SubSeq(arg, 1, i - 1), mode |-> m]

\* The status frame the daemon can answer a DONE with, or a failed read.
SyncStatusAnswers ==
    { [id |-> "OKAY", data |-> <<>>, err |-> NoErr],
      [id |-> "FAIL", data |-> <<"d","e","n","i","e","d">>, err |-> NoErr],
      [id |-> "DATA", data |-> <<>>, err |-> NoErr],
      [id |-> "", data |-> <<>>, err |-> IOError(<<"r","e","a","d">>)] }

\* sync.VerifyStatus() on the answer a
VerifyStatus(a) ==
    IF a.err # NoErr THEN a.err
    ELSE IF a.id = "OKAY" THEN NoErr
    ELSE IF a.id = "FAIL" THEN RemoteRejected(a.data)
    ELSE ProtocolError(<<"i","d">>)

\* The sizes of the DATA frame the daemon may send next, rem bytes being left.
DaemonChunks(rem) == { Min(SyncMaxChunkSize, rem), Min(SyncMaxChunkSize - 1, rem) }

WriteOutcomes == { NoErr, IOError(<<"d","e","s","t">>) }

----------------------------------------------------------------------------
(* Device.Push(source, remotePath, modification, mode...)                  *)

\* const DefaultFileMode = os.FileMode(0664)
DefaultFileMode == 436

\* A source of n bytes.
SourceOf(n) == Extent("source", 0, n)

SmallSources == { SourceOf(3) }
BoundarySources ==
    { SourceOf(n) : n \in { 0, 3, SyncMaxChunkSize, SyncMaxChunkSize + 1,
                            2 * SyncMaxChunkSize } }
PushPaths == { <<"/","a">> }
\* modification.Unix() of the calls, all within uint32
Modifications == { 1700000000 }

\* data := fmt.Sprintf("%s,%d", remotePath, mode[0])
SendArg(remotePath, mode) == remotePath \o <<",">> \o Decimal(mode)

PushArgs(src, path, mtime) ==
    [source |-> src, remotePath |-> path, modification |-> mtime,
     mode |-> DefaultFileMode]

Push_Call ==
    \E src \in SmallSources, path \in PushPaths, mtime \in Modifications :
        Enter("Push", PushArgs(src, path, mtime), "createDeviceTransport")

Push_Call_boundary ==
    \E src \in BoundarySources, path \in PushPaths, mtime \in Modifications :
        Enter("Push", PushArgs(src, path, mtime), "createDeviceTransport")

Push_CreateSyncTransport == SyncOpen("Push", "Push_Send")

\* Push going from SEND straight to DONE, the source never streamed.
Push_Send_skipsStream ==
    /\ pc = "Push_Send"
    /\ \E e \in SendOutcomes :
        IF e = NoErr
        THEN LET data == SendArg(args.remotePath, args.mode)
                 to == ParseSendArg(data)
             IN /\ log' = Append(log, Ev("sync.Send", <<"SEND">> \o data))
                /\ daemon' = [daemon EXCEPT
                                !.upload = [open |-> TRUE, arg |-> data, data |-> <<>>,
                                            mtime |-> 0],
                                !.files = IF to.ok /\ to.path \in Paths
                                          THEN [@ EXCEPT ![to.path] = Absent] ELSE @]
                /\ pushed' = NoPushed
                /\ pc' = "Push_SendStatus"
                /\ UNCHANGED <<sock, err, ret, failed>>
        ELSE FailAt("Push.Send", log, e, <<>>, SyncDefers) /\ UNCHANGED <<daemon, pushed>>
    /\ UNCHANGED <<op, args, rx, sync, shell, demux, pipe, consumer, logcat>>

\* err = sync.Send("SEND", data).  The daemon removes the file it is about to
\* receive and keeps the upload aside until DONE.
Push_Send ==
    /\ pc = "Push_Send"
    /\ \E e \in SendOutcomes :
        IF e = NoErr
        THEN LET data == SendArg(args.remotePath, args.mode)
                 to == ParseSendArg(data)
             IN /\ log' = Append(log, Ev("sync.Send", <<"SEND">> \o data))
                /\ daemon' = [daemon EXCEPT
                                !.upload = [open |-> TRUE, arg |-> data, data |-> <<>>,
                                            mtime |-> 0],
                                !.files = IF to.ok /\ to.path \in Paths
                                          THEN [@ EXCEPT ![to.path] = Absent] ELSE @]
                /\ pushed' = NoPushed
                /\ pc' = "Push_SendStream"
                /\ UNCHANGED <<sock, err, ret, failed>>
        ELSE FailAt("Push.Send", log, e, <<>>, SyncDefers) /\ UNCHANGED <<daemon, pushed>>
    /\ UNCHANGED <<op, args, rx, sync, shell, demux, pipe, consumer, logcat>>

\* Push sending DONE although SendStream failed.
Push_SendStream_goesOn ==
    /\ pc = "Push_SendStream"
    /\ IF sync.srcPos = BytesLen(args.source)
       THEN /\ pc' = "Push_SendStatus"
            /\ UNCHANGED <<sock, log, err, ret, failed, sync, daemon>>
       ELSE \E e \in SendOutcomes :
            LET n == Min(SyncMaxChunkSize, BytesLen(args.source) - sync.srcPos)
                chunk == BytesSub(args.source, sync.srcPos, n)
            IN IF e = NoErr
               THEN /\ sync' = [sync EXCEPT !.srcPos = @ + n, !.chunks = Append(@, n)]
                    /\ daemon' = [daemon EXCEPT !.upload.data = BytesCat(@, chunk)]
                    /\ log' = Append(log, Ev("sync.Data", Decimal(n)))
                    /\ UNCHANGED <<pc, sock, err, ret, failed>>
               ELSE /\ failed' = [step |-> "SendStream", err |-> e]
                    /\ err' = e
                    /\ pc' = "Push_SendStatus"
                    /\ UNCHANGED <<sock, log, ret, sync, daemon>>
    /\ UNCHANGED <<op, args, rx, pushed, shell, demux, pipe, consumer, logcat>>

\* err = sync.SendStream(source): one chunk of at most SyncMaxChunkSize bytes
\* is read from the source and sent as a DATA frame, until the source is
\* exhausted.
Push_SendStream ==
    /\ pc = "Push_SendStream"
    /\ IF sync.srcPos = BytesLen(args.source)
       THEN /\ pc' = "Push_SendStatus"
            /\ UNCHANGED <<sock, log, err, ret, failed, sync, daemon>>
       ELSE \E e \in SendOutcomes :
            LET n == Min(SyncMaxChunkSize, BytesLen(args.source) - sync.srcPos)
                chunk == BytesSub(args.source, sync.srcPos, n)
            IN IF e = NoErr
               THEN /\ sync' = [sync EXCEPT !.srcPos = @ + n, !.chunks = Append(@, n)]
                    /\ daemon' = [daemon EXCEPT !.upload.data = BytesCat(@, chunk)]
                    /\ log' = Append(log, Ev("sync.Data", Decimal(n)))
                    /\ UNCHANGED <<pc, sock, err, ret, failed>>
               ELSE /\ FailAt("SendStream", log, e, <<>>, SyncDefers)
                    /\ UNCHANGED <<sync, daemon>>
    /\ UNCHANGED <<op, args, rx, pushed, shell, demux, pipe, consumer, logcat>>

\* err = sync.SendStatus("DONE", uint32(modification.Unix()))
Push_SendStatus ==
    /\ pc = "Push_SendStatus"
    /\ \E e \in SendOutcomes :
        IF e = NoErr
        THEN LET mtime == args.modification
             IN /\ log' = Append(log, Ev("sync.SendStatus", <<"DONE">> \o Decimal(mtime)))
                /\ daemon' = [daemon EXCEPT !.upload.mtime = mtime]
                /\ pc' = "Push_VerifyStatus"
                /\ UNCHANGED <<sock, err, ret, failed>>
        ELSE FailAt("SendStatus", log, e, <<>>, SyncDefers) /\ UNCHANGED daemon
    /\ UNCHANGED <<op, args, rx, sync, pushed, shell, demux, pipe, consumer, logcat>>

\* err = sync.VerifyStatus(); return.  The daemon answers OKAY when it has
\* stored the upload under the path of the SEND argument.
Push_VerifyStatus ==
    /\ pc = "Push_VerifyStatus"
    /\ \E a \in SyncStatusAnswers :
        LET e == VerifyStatus(a)
            to == ParseSendArg(daemon.upload.arg)
            lg == Append(log, Ev("sync.VerifyStatus", e.kind))
        IN /\ (a.err = NoErr /\ a.id = "OKAY") => to.ok
           /\ IF e = NoErr
              THEN /\ daemon' = [daemon EXCEPT
                                   !.files[to.path] = [exists |-> TRUE,
                                                       data |-> daemon.upload.data,
                                                       mode |-> to.mode,
                                                       mtime |-> daemon.upload.mtime],
                                   !.upload = NoUpload]
                   /\ pushed' = [path |-> args.remotePath, source |-> args.source,
                                 valid |-> TRUE]
                   /\ Return(lg, NoErr, <<>>, SyncDefers)
                   /\ UNCHANGED failed
              ELSE /\ daemon' = [daemon EXCEPT !.upload = NoUpload]
                   /\ FailAt("VerifyStatus", lg, e, <<>>, SyncDefers)
                   /\ UNCHANGED pushed
    /\ UNCHANGED <<op, args, rx, sync, shell, demux, pipe, consumer, logcat>>

Push ==
    \/ Push_CreateSyncTransport
    \/ Push_Send
    \/ Push_SendStream
    \/ Push_SendStatus
    \/ Push_VerifyStatus

----------------------------------------------------------------------------
(* Device.Pull(remotePath, dest)                                           *)

Pull_Call ==
    \E path \in Paths : Enter("Pull", [remotePath |-> path], "createDeviceTransport")

Pull_CreateSyncTransport == SyncOpen("Pull", "Pull_Send")

\* err = sync.Send("RECV", remotePath)
Pull_Send ==
    /\ pc = "Pull_Send"
    /\ \E e \in SendOutcomes :
        IF e = NoErr
        THEN /\ log' = Append(log, Ev("sync.Send", <<"RECV">> \o args.remotePath))
             /\ daemon' = [daemon EXCEPT !.sendPos = 0]
             /\ pc' = "Pull_WriteStream"
             /\ UNCHANGED <<sock, err, ret, failed>>
        ELSE FailAt("Pull.Send", log, e, <<>>, SyncDefers) /\ UNCHANGED daemon
    /\ UNCHANGED <<op, args, rx, sync, pushed, shell, demux, pipe, consumer, logcat>>

\* err = sync.WriteStream(dest); return.  Each step reads one frame: a DATA
\* payload is written to dest, DONE ends the loop, FAIL is RemoteRejected.
Pull_WriteStream ==
    /\ pc = "Pull_WriteStream"
    /\ LET file == daemon.files[args.remotePath]
           rem == BytesLen(file.data) - daemon.sendPos
       IN \E re \in ReadOutcomes, we \in WriteOutcomes, n \in DaemonChunks(rem) :
           IF re # NoErr
           THEN /\ FailAt("WriteStream.read", Append(log, Ev("sync.Read", re.kind)), re,
                          <<>>, SyncDefers)
                /\ UNCHANGED <<sync, daemon>>
           ELSE IF ~file.exists
           THEN /\ FailAt("WriteStream.FAIL", Append(log, Ev("sync.Read", <<"FAIL">>)),
                          RemoteRejected(<<"n","o"," ","f","i","l","e">>), <<>>, SyncDefers)
                /\ UNCHANGED <<sync, daemon>>
           ELSE IF rem = 0
           THEN /\ Return(Append(log, Ev("sync.Read", <<"DONE">>)), NoErr, <<>>, SyncDefers)
                /\ UNCHANGED <<failed, sync, daemon>>
           ELSE LET lg == Append(log, Ev("sync.Read", <<"DATA">>))
                    chunk == BytesSub(file.data, daemon.sendPos, n)
                IN /\ daemon' = [daemon EXCEPT !.sendPos = @ + n]
                   /\ IF we # NoErr
                      THEN FailAt("WriteStream.write", lg, we, <<>>, SyncDefers)
                           /\ UNCHANGED sync
                      ELSE /\ sync' = [sync EXCEPT !.dest = BytesCat(@, chunk)]
                           /\ log' = lg
                           /\ UNCHANGED <<pc, sock, err, ret, failed>>
    /\ UNCHANGED <<op, args, rx, pushed, shell, demux, pipe, consumer, logcat>>

Pull ==
    \/ Pull_Call
    \/ Pull_CreateSyncTransport
    \/ Pull_Send
    \/ Pull_WriteStream

----------------------------------------------------------------------------
(* Device.Logcat(dst, exitChan)                                            *)

LogcatRequest == <<"s","h","e","l","l",":","l","o","g","c","a","t">>

\* The k-th chunk of log output the socket delivers.
LogChunk(k) == <<"l", DigitChars[k + 1]>>

Logcat_Call == Enter("Logcat", <<>>, "createDeviceTransport")

\* defer tp.Close() is in force from here on.
Logcat_Send ==
    /\ pc = "Logcat_Send"
    /\ \E e \in SendOutcomes :
        IF e = NoErr
        THEN /\ log' = Append(log, Ev("Send", LogcatRequest))
             /\ pc' = "Logcat_VerifyResponse"
             /\ UNCHANGED <<sock, err, ret, failed>>
        ELSE FailAt("Logcat.Send", log, e, <<>>, <<"tp.Close">>)
    /\ UNCHANGED <<op, args, rx, sync, daemon, pushed, shell, demux, pipe, consumer, logcat>>

\* err = tp.VerifyResponse(); then ctx, cancel := context.WithCancel(..) and
\* the copy goroutine is started.
Logcat_VerifyResponse ==
    /\ pc = "Logcat_VerifyResponse"
    /\ \E reply \in StatusReplies :
        LET r == VerifyResponse(rx \o reply)
            lg == Append(log, VerifyEv(rx \o reply, r))
        IN /\ rx' = r.rest
           /\ IF r.err # NoErr
              THEN /\ FailAt("Logcat.VerifyResponse", lg, r.err, <<>>, <<"tp.Close">>)
                   /\ UNCHANGED logcat
              ELSE /\ log' = lg
                   /\ pc' = "Logcat_exitChan"
                   /\ logcat' = [logcat EXCEPT !.pc = "Read"]
                   /\ UNCHANGED <<sock, err, ret, failed>>
    /\ UNCHANGED <<op, args, sync, daemon, pushed, shell, demux, pipe, consumer>>

\* The owner of exitChan sends the exit signal; the send waits for Logcat.
exitChan_send ==
    /\ op = "Logcat"
    /\ pc # "returned"
    /\ ~logcat.exitSent
    /\ logcat' = [logcat EXCEPT !.exitSent = TRUE]
    /\ UNCHANGED <<facadeVars, sync, daemon, pushed, shell, demux, pipe, consumer>>

\* Logcat going on as soon as the copy is over, exit signal or not.
Logcat_exitChan_orCopyDone ==
    /\ pc = "Logcat_exitChan"
    /\ logcat.exitSent \/ logcat.pc = "done"
    /\ pc' = "Logcat_cancel"
    /\ UNCHANGED <<op, args, sock, log, rx, err, ret, failed, sync, daemon, pushed,
                   shell, demux, pipe, consumer, logcat>>

\* <-exitChan
Logcat_exitChan ==
    /\ pc = "Logcat_exitChan"
    /\ logcat.exitSent
    /\ pc' = "Logcat_cancel"
    /\ UNCHANGED <<op, args, sock, log, rx, err, ret, failed, sync, daemon, pushed,
                   shell, demux, pipe, consumer, logcat>>

\* cancel()
Logcat_cancel ==
    /\ pc = "Logcat_cancel"
    /\ logcat' = [logcat EXCEPT !.cancelled = TRUE]
    /\ pc' = "Logcat_return"
    /\ UNCHANGED <<op, args, sock, log, rx, err, ret, failed, sync, daemon, pushed,
                   shell, demux, pipe, consumer>>

\* Logcat returning with the socket left open.
Logcat_return_noClose ==
    /\ pc = "Logcat_return"
    /\ Return(log, err, <<>>, <<>>)
    /\ UNCHANGED <<op, args, rx, failed, sync, daemon, pushed, shell, demux, pipe,
                   consumer, logcat>>

\* return err, which is nil here; the deferred tp.Close() runs.
Logcat_return ==
    /\ pc = "Logcat_return"
    /\ Return(log, err, <<>>, <<"tp.Close">>)
    /\ UNCHANGED <<op, args, rx, failed, sync, daemon, pushed, shell, demux, pipe,
                   consumer, logcat>>

\* io.Copy(dst, NewReader(ctx, tp.sock)): one Read.  It reports end-of-stream
\* once ctx is cancelled, fails on the closed socket, and otherwise returns
\* the bytes the socket delivers or the peer's end of stream.
Logcat_copy_Read ==
    /\ logcat.pc = "Read"
    /\ IF logcat.cancelled \/ sock # "open"
       THEN /\ logcat' = [logcat EXCEPT !.pc = "done"]
            /\ UNCHANGED <<log, rx>>
       ELSE \/ /\ logcat.nread < MaxLogLines
               /\ logcat' = [logcat EXCEPT !.pc = "Write", !.nread = @ + 1,
                                            !.buf = rx \o LogChunk(logcat.nread + 1)]
               /\ log' = Append(log, Ev("Read", rx \o LogChunk(logcat.nread + 1)))
               /\ rx' = <<>>
            \/ /\ logcat' = [logcat EXCEPT !.pc = "done"]
               /\ log' = Append(log, Ev("Read", <<"EOF">>))
               /\ UNCHANGED rx
    /\ UNCHANGED <<op, pc, args, sock, err, ret, failed, sync, daemon, pushed, shell,
                   demux, pipe, consumer>>

\* io.Copy writes what it has read to dst.
Logcat_copy_Write ==
    /\ logcat.pc = "Write"
    /\ \E e \in WriteOutcomes :
        IF e = NoErr
        THEN logcat' = [logcat EXCEPT
                           !.pc = "Read",
                           !.dst = @ \o logcat.buf,
                           !.buf = <<>>,
                           !.lateWrites = IF pc = "returned" THEN @ + 1 ELSE @]
        ELSE logcat' = [logcat EXCEPT !.pc = "done", !.buf = <<>>]
    /\ UNCHANGED <<facadeVars, sync, daemon, pushed, shell, demux, pipe, consumer>>

Logcat ==
    \/ Logcat_Call
    \/ Logcat_Send
    \/ Logcat_VerifyResponse
    \/ exitChan_send
    \/ Logcat_exitChan
    \/ Logcat_cancel
    \/ Logcat_return
    \/ Logcat_copy_Read
    \/ Logcat_copy_Write

----------------------------------------------------------------------------

Init ==
    /\ op = "none" /\ pc = "idle" /\ args = <<>>
    /\ sock = "none" /\ log = <<>> /\ rx = <<>>
    /\ err = NoErr /\ ret = NoRet /\ failed = NoFail
    /\ sync = SyncIdle
    /\ daemon = [files |-> [p \in Paths |->
                               IF p = <<"/","b">>
                               THEN [exists |-> TRUE, data |-> Extent("b", 0, 2), mode |-> 420,
                                     mtime |-> 5]
                               ELSE Absent],
                 upload |-> NoUpload, sendPos |-> 0]
    /\ pushed = NoPushed
    /\ shell = NoShell /\ demux = NoDemux /\ pipe = NoPipe
    /\ consumer = NoConsumer /\ logcat = NoLogcat

Next ==
    \/ createDeviceTransport
    \/ executeCommand
    \/ List
    \/ Push_Call
    \/ Push
    \/ Pull
    \/ Logcat
    \/ RunShellCommandWithBytes
    \/ RunShellCommandAsync
    \/ Shell_Close
    \/ newShellReader
    \/ Reader_Read

Spec == Init /\ [][Next]_vars

\* One shell session: RunShellCommandAsync, then Shell.Close, the
\* demultiplexer and the reader of Shell.Reader in any interleaving.
NextShell ==
    \/ createDeviceTransport
    \/ RunShellCommandAsync
    \/ Shell_Close
    \/ newShellReader
    \/ Reader_Read

SpecShell == Init /\ [][NextShell]_vars

\* Push and Pull with sources around the chunk ceiling.
NextSync ==
    \/ createDeviceTransport
    \/ Push_Call_boundary
    \/ Push
    \/ Pull

SpecSync == Init /\ [][NextSync]_vars

\* The scheduler runs the demultiplexer goroutine whenever it can take a step
\* that does not wait for the peer, and the consumer keeps reading.
FairSpecShell ==
    /\ SpecShell
    /\ WF_vars(newShellReader_Read_closed)
    /\ WF_vars(newShellReader_Write_done)
    /\ WF_vars(newShellReader_return)
    /\ WF_vars(Reader_Read)

\* Logcat calls alone.
NextLogcat ==
    \/ createDeviceTransport
    \/ Logcat

SpecLogcat == Init /\ [][NextLogcat]_vars

\* Logcat's own goroutine and its copy goroutine are scheduled whenever they
\* can take a step, and dst.Write returns.  The owner of exitChan and the
\* daemon are free to do nothing.
FairSpecLogcat ==
    /\ SpecLogcat
    /\ WF_vars(Logcat_cancel)
    /\ WF_vars(Logcat_return)
    /\ WF_vars(Logcat_copy_Read)
    /\ WF_vars(Logcat_copy_Write)

----------------------------------------------------------------------------
(* Properties *)

IsPrefix(a, b) == Len(a) <= Len(b) /\ SubSeq(b, 1, Len(a)) = a

RECURSIVE OutputBefore(_)
\* The payloads of the stdout and stderr frames of fs that come before its
\* first exitCode frame, concatenated in order.
OutputBefore(fs) ==
    IF fs = <<>> THEN <<>>
    ELSE IF Head(fs).id = shellExit THEN <<>>
    ELSE IF Head(fs).id \in {shellStdout, shellStderr}
         THEN Head(fs).data \o OutputBefore(Tail(fs))
         ELSE OutputBefore(Tail(fs))

\* C1: what the consumer has read from Shell.Reader is always a prefix of the
\* concatenation, in arrival order, of the stdout and stderr payloads that
\* st.Read returned before the first exitCode frame or read error; when the
\* consumer sees end-of-stream it has read exactly that concatenation, the
\* frame stream has ended, and once the demultiplexer is done the stream
\* reports end-of-stream to the next Read.
C1_DemuxOutput ==
    /\ IsPrefix(consumer.got, OutputBefore(demux.arrived))
    /\ consumer.eof =>
          /\ consumer.got = OutputBefore(demux.arrived)
          /\ demux.ended # "no"
    /\ (demux.pc = "done" /\ ~consumer.eof /\ pipe.data = <<>>) => ENABLED Reader_Read_EOF
    /\ demux.ended # "no" => demux.pc \in {"return", "done"}

\* C1 witness: a stdout and a stderr payload, then the exitCode frame, all
\* read by the consumer up to end-of-stream.
C1_Witness ==
    /\ consumer.eof
    /\ demux.ended = "exit"
    /\ \E i, j \in 1..Len(demux.arrived) :
          /\ demux.arrived[i].id = shellStdout /\ demux.arrived[i].data # <<>>
          /\ demux.arrived[j].id = shellStderr /\ demux.arrived[j].data # <<>>
    /\ Len(consumer.got) = 4

\* C2: the first Shell.Close returns no error, and once Shell.Close has been
\* called the consumer, which keeps reading, eventually sees end-of-stream.
C2_CloseEndsStream ==
    /\ [](shell.closes # <<>> => shell.closes[1] = NoErr)
    /\ (shell.closes # <<>>) ~> consumer.eof

\* C2 witness: Close was called while output was flowing, the demultiplexer
\* saw the closed socket, and the consumer reached end-of-stream.
C2_Witness ==
    /\ shell.closes # <<>>
    /\ demux.ended = "closed"
    /\ consumer.got # <<>>
    /\ consumer.eof

----------------------------------------------------------------------------

\* C3: when a facade method has returned, the socket it opened is closed,
\* unless the method is a successful RunShellCommandAsync, whose socket the
\* returned Shell holds.
C3_NoSocketLeft ==
    (pc = "returned" /\ sock = "open") => (op = "RunShellCommandAsync" /\ ret.err = NoErr)

IsClose(e) == e.ev = "close"
AwaitingStatus ==
    pc \in { "createDeviceTransport_VerifyResponse", "executeCommand_VerifyResponse",
             "RunShellCommandAsync_VerifyResponse", "Logcat_VerifyResponse" }

\* C4: in the history of every socket each Send is followed at once by one
\* VerifyResponse (or the caller is about to make it), a VerifyResponse comes
\* only right after a Send, and after a VerifyResponse that failed nothing
\* happens on the socket but its Close.
C4_SendThenVerify ==
    \A i \in 1..Len(log) :
        /\ log[i].ev = "Send" =>
              IF i < Len(log) THEN log[i + 1].ev = "VerifyResponse" ELSE AwaitingStatus
        /\ log[i].ev = "VerifyResponse" =>
              /\ i > 1 /\ log[i - 1].ev = "Send"
              /\ log[i].err # NoErr => \A j \in (i + 1)..Len(log) : IsClose(log[j])
        /\ (i = Len(log) /\ AwaitingStatus) => log[i].ev = "Send"

\* C4 witness: executeCommand has sent and verified both requests and read
\* a payload.
C4_Witness ==
    /\ op = "executeCommand" /\ pc = "returned" /\ ret.err = NoErr
    /\ ret.val = <<"o","k">>
    /\ Cardinality({ i \in 1..Len(log) : log[i].ev = "VerifyResponse" }) = 2

\* C5: a Pull that returns nil, made after a Push to the same path that
\* returned nil, has written to dest exactly the bytes of the Push's source;
\* and every DATA frame of a Push carries at most 64 KiB.
C5_RoundTrip ==
    /\ (op = "Pull" /\ pc = "returned" /\ ret.err = NoErr /\ pushed.valid
            /\ pushed.path = args.remotePath)
          => sync.dest = pushed.source
    /\ op = "Push" =>
          /\ \A i \in 1..Len(sync.chunks) : sync.chunks[i] >= 1 /\ sync.chunks[i] <= 65536
          /\ pc \in {"Push_SendStatus", "Push_VerifyStatus"} =>
                daemon.upload.data = args.source

\* C5 witness: a source one byte longer than the chunk ceiling came back.
C5_Witness ==
    /\ op = "Pull" /\ pc = "returned" /\ ret.err = NoErr
    /\ pushed.valid /\ pushed.path = args.remotePath
    /\ BytesLen(sync.dest) = 65537

IsStop(a) == a.err # NoErr \/ a.entry = ZeroEntry

\* C6: while List reads entries it has received no sentinel and no error and
\* holds exactly the entries received; when it has returned after reading,
\* the last answer read is the sentinel or an error and no earlier one is,
\* the list returned holds the answers before it, in order, without the
\* sentinel, and the error returned is that of the last answer (nil for the
\* sentinel); List never returns nil without having read the sentinel.
C6_ListUntilSentinel ==
    op = "List" =>
        LET as == sync.answers
            n == Len(as)
        IN /\ pc = "List_ReadDirectoryEntry" =>
                /\ \A i \in 1..n : ~IsStop(as[i])
                /\ sync.devFileInfos = [i \in 1..n |-> as[i].entry]
           /\ (pc = "returned" /\ n > 0) =>
                /\ IsStop(as[n])
                /\ \A i \in 1..(n - 1) : ~IsStop(as[i])
                /\ ret.val = [i \in 1..(n - 1) |-> as[i].entry]
                /\ \A i \in 1..Len(ret.val) : ret.val[i] # ZeroEntry
                /\ ret.err = as[n].err
           /\ (pc = "returned" /\ n = 0) => ret.err # NoErr

\* C6 witness: two entries, then the sentinel.
C6_Witness ==
    /\ op = "List" /\ pc = "returned" /\ ret.err = NoErr
    /\ Len(ret.val) = 2
    /\ Len(sync.answers) = 3

\* C7: once a socket has been closed it stays closed and nothing but further
\* Close calls happens on it (no request, frame or read), and every
\* Shell.Close, the first and the later ones, returns nil.
C7_CloseIdempotent ==
    /\ \A i \in 1..Len(log) :
          IsClose(log[i]) =>
              /\ sock = "closed"
              /\ \A j \in (i + 1)..Len(log) : IsClose(log[j]) /\ log[j].arg[2] = "closed"
    /\ \A k \in 1..Len(shell.closes) : shell.closes[k] = NoErr

\* C7 witness: Shell.Close called a second time, on the closed socket.
C7_Witness ==
    /\ Len(shell.closes) = 2
    /\ \E i \in 1..Len(log) : IsClose(log[i]) /\ log[i].arg = <<"Shell.Close", "closed">>

\* C8: a VerifyResponse that had at least four bytes: on OKAY it returns nil
\* and leaves everything after the token unread; on FAIL followed by the
\* length and message m it returns RemoteRejected(m) and leaves exactly what
\* follows the message unread; on another token it returns a ProtocolError.
\* When it failed, the method returns that error with no payload and
\* nothing but Close happens on the socket.
C8_VerifyResponse ==
    \A i \in 1..Len(log) :
        (log[i].ev = "VerifyResponse" /\ Len(log[i].buf) >= 4) =>
            LET v == log[i]
                token == SubSeq(v.buf, 1, 4)
            IN /\ token = OKAY => v.err = NoErr /\ v.rest = SubSeq(v.buf, 5, Len(v.buf))
               /\ \A m \in Msgs :
                     (Len(v.buf) >= 8 + Len(m)
                         /\ SubSeq(v.buf, 1, 8 + Len(m)) = FAIL \o Hex4(Len(m)) \o m)
                     => /\ v.err = [kind |-> "RemoteRejected", msg |-> m]
                        /\ v.rest = SubSeq(v.buf, 9 + Len(m), Len(v.buf))
               /\ token \notin {OKAY, FAIL} => v.err.kind = "ProtocolError"
               /\ token = FAIL => v.err # NoErr
               /\ v.err # NoErr =>
                     /\ \A j \in (i + 1)..Len(log) : IsClose(log[j])
                     /\ pc = "returned"
                     /\ ret = [err |-> v.err, val |-> <<>>]

\* C8 witness: executeCommand's own request was rejected with a ten-byte
\* message followed by one more byte.
C8_Witness ==
    /\ op = "executeCommand" /\ pc = "returned"
    /\ ret.err = [kind |-> "RemoteRejected",
                  msg |-> <<"n","o","t"," ","f","o","u","n","d","!">>]
    /\ rx = <<"x">>
    /\ Cardinality({ i \in 1..Len(log) : log[i].ev = "VerifyResponse" }) = 2

\* The sync events of a Push, in order.
SyncEvents == SelectSeq(log, LAMBDA e : e.ev \in {"sync.Send", "sync.Data",
                                                   "sync.SendStatus", "sync.VerifyStatus"})
Has(kind) == \E i \in 1..Len(log) : log[i].ev = kind

\* C9: the sync frames of a Push come in the order SEND "<path>,<mode>",
\* DATA*, DONE <mtime>, one status read; Push returns nil only after that
\* status was OKAY; a failed step ends the call with that step's error and
\* no later step is made.
C9_PushOrder ==
    op = "Push" =>
        LET ev == SyncEvents
        IN /\ \A i \in 1..Len(ev) :
                /\ i = 1 => ev[i] = Ev("sync.Send", <<"SEND">> \o args.remotePath
                                                     \o <<",", "4", "3", "6">>)
                /\ ev[i].ev = "sync.Send" => i = 1
                /\ ev[i].ev = "sync.Data" => ev[i - 1].ev \in {"sync.Send", "sync.Data"}
                /\ ev[i].ev = "sync.SendStatus" =>
                      /\ ev[i - 1].ev \in {"sync.Send", "sync.Data"}
                      /\ ev[i].arg = <<"DONE">> \o Decimal(args.modification)
                      /\ sync.srcPos = BytesLen(args.source)
                /\ ev[i].ev = "sync.VerifyStatus" =>
                      ev[i - 1].ev = "sync.SendStatus" /\ i = Len(ev)
           /\ (pc = "returned" /\ ret.err = NoErr) =>
                 /\ Len(ev) >= 3
                 /\ ev[Len(ev)] = Ev("sync.VerifyStatus", "nil")
                 /\ failed = NoFail
           /\ failed.step # "none" =>
                 /\ pc = "returned"
                 /\ ret.err = failed.err /\ ret.err # NoErr
                 /\ failed.step \in {"Push.Send", "SendStream"} => ~Has("sync.SendStatus")
                 /\ failed.step = "SendStatus" => ~Has("sync.VerifyStatus")
                 /\ failed.step = "Push.Send" => ev = <<>>
           /\ pc = "returned" /\ ret.err # NoErr => failed.step # "none"

\* C9 witness: a Push of two DATA frames acknowledged with OKAY.
C9_Witness ==
    /\ op = "Push" /\ pc = "returned" /\ ret.err = NoErr
    /\ Len(SyncEvents) = 5
    /\ Len(sync.chunks) = 2

\* C10: the pipe writer is closed at most once, exactly once when the
\* demultiplexer has finished (however the frame stream ended), only then,
\* and no payload is written to it after it is closed.
C10_TerminatedOnce ==
    /\ demux.pwClose <= 1
    /\ demux.pc = "done" <=> demux.pwClose = 1
    /\ pipe.closed <=> demux.pwClose = 1
    /\ demux.lateWrites = 0
    /\ pipe.closed => pipe.data = <<>>

\* C10 witness: Shell.Close called twice, the demultiplexer ended on the
\* closed socket after delivering output, and the writer was closed once.
C10_Witness ==
    /\ Len(shell.closes) = 2
    /\ demux.ended = "closed"
    /\ demux.pc = "done"
    /\ demux.pwClose = 1
    /\ consumer.got # <<>>

IsSuffix(a, b) == Len(a) <= Len(b) /\ SubSeq(b, Len(b) - Len(a) + 1, Len(b)) = a

\* C11: every output byte read from the ShellTransport has been consumed
\* from Shell.Reader or belongs to the one payload being handed over; bytes
\* are pending only while the demultiplexer is inside pw.Write, they are the
\* rest of the payload of the frame read last, and the demultiplexer is never
\* at st.Read while any are pending.
C11_BoundedHandOff ==
    /\ consumer.got \o pipe.data = OutputBefore(demux.arrived)
    /\ pipe.data # <<>> =>
          /\ demux.pc = "Write"
          /\ LET f == demux.arrived[Len(demux.arrived)]
             IN f.id \in {shellStdout, shellStderr} /\ IsSuffix(pipe.data, f.data)
    /\ demux.pc \in {"Read", "return", "done"} => pipe.data = <<>>

\* C11 witness: the second payload is half consumed and the demultiplexer
\* waits inside pw.Write.
C11_Witness ==
    /\ demux.pc = "Write"
    /\ Len(demux.arrived) = 2
    /\ Len(consumer.got) = 3
    /\ Len(pipe.data) = 1

\* C12: the cancellation fires only after the exit signal was received; once
\* it was received, the context is eventually cancelled, the socket closed
\* and the copy task over; and a Read made after the cancellation takes
\* nothing from the socket, whatever it still holds.
C12_CancelEndsLogcat ==
    /\ [](logcat.cancelled => logcat.exitSent)
    /\ (pc = "Logcat_cancel") ~> (logcat.cancelled /\ sock = "closed" /\ logcat.pc = "done")
    /\ [][(logcat.cancelled /\ logcat.pc = "Read")
            => (logcat'.pc \in {"Read", "done"} /\ logcat'.nread = logcat.nread /\ rx' = rx)]_vars

\* C12 witness: Logcat has returned after the exit signal, the socket is
\* closed and the copy task is over without having read the bytes the socket
\* still held.
C12_Witness ==
    /\ op = "Logcat" /\ pc = "returned"
    /\ logcat.cancelled /\ logcat.pc = "done"
    /\ sock = "closed"
    /\ logcat.nread = 0 /\ rx # <<>>

SyncTraffic == { "sync.Send", "sync.Data", "sync.SendStatus", "sync.VerifyStatus",
                 "sync.ReadDirectoryEntry", "sync.Read", "close" }
ShellTraffic == { "st.Read", "close" }

\* C13: after CreateShellTransport nothing happens on the socket but frame
\* reads and Close, and after a verified sync: request nothing but sync
\* frames and Close; a Shell exists exactly when one demultiplexer task was
\* started for it, frames are read only for a Shell, and bytes are pending
\* in the pipe only while that task is inside pw.Write.
C13_SingleOwner ==
    /\ \A i \in 1..Len(log) :
          /\ log[i].ev = "CreateShellTransport" =>
                \A j \in (i + 1)..Len(log) : log[j].ev \in ShellTraffic
          /\ (log[i] = Ev("Send", SyncRequest) /\ i < Len(log) /\ log[i + 1].err = NoErr) =>
                \A j \in (i + 2)..Len(log) : log[j].ev \in SyncTraffic
          /\ log[i].ev = "st.Read" =>
                \E k \in 1..(i - 1) : log[k].ev = "CreateShellTransport"
    /\ demux.tasks = (IF shell.live THEN 1 ELSE 0)
    /\ shell.live <=> Has("CreateShellTransport")
    /\ demux.pc # "none" <=> shell.live
    /\ Len(demux.arrived) = Cardinality({ i \in 1..Len(log) : log[i].ev = "st.Read" })
    /\ pipe.data # <<>> => demux.pc = "Write"

\* C13 witness: a Shell whose demultiplexer read all its frames, then was
\* closed.
C13_Witness ==
    /\ shell.live /\ demux.tasks = 1
    /\ Len(demux.arrived) = MaxFrames
    /\ Len(shell.closes) = 1
    /\ log[Len(log)].ev = "close"
    /\ log[Len(log) - 1].ev = "st.Read"

\* C14: when the demultiplexer has finished because the remote process
\* exited or the frame read failed, the consumer has seen end-of-stream and
\* the caller has not called Shell.Close, the socket has been released.  No
\* task of the Shell is left then, so a socket still open stays open.
C14_ReleasedWithoutClose ==
    (/\ shell.live /\ shell.closes = <<>>
     /\ demux.pc = "done" /\ demux.ended \in {"exit", "error"}
     /\ consumer.eof)
    => sock = "closed"

ShellSteps == { "RunShellCommandAsync.Send", "RunShellCommandAsync.VerifyResponse",
                "CreateShellTransport" }

\* C15: RunShellCommandAsync returns a Shell exactly when it returns nil,
\* and then the socket's history begins with the verified host:transport
\* request, the verified shell:<cmd> request and CreateShellTransport, one
\* demultiplexer task was started, and the socket is open as long as
\* Shell.Close has not been called; when the shell: Send, its VerifyResponse
\* or CreateShellTransport failed, the transport was closed, no task was
\* started and the step's error is returned with no Shell; no task is
\* started before the method returns.
C15_ShellIffAllSucceeded ==
    op = "RunShellCommandAsync" =>
        /\ pc # "returned" => (demux.tasks = 0 /\ ~shell.live)
        /\ pc = "returned" =>
              /\ (ret.val = <<"Shell">>) <=> (ret.err = NoErr)
              /\ ret.val \in { <<>>, <<"Shell">> }
              /\ (ret.err = NoErr) <=> shell.live
              /\ (ret.err = NoErr) <=> (failed = NoFail)
              /\ ret.err = NoErr =>
                    /\ Len(log) >= 6
                    /\ log[1].ev = "open"
                    /\ log[2] = Ev("Send", HostTransport)
                    /\ log[3].ev = "VerifyResponse" /\ log[3].err = NoErr
                    /\ log[4] = Ev("Send", ShellPrefix \o args.cmd)
                    /\ log[5].ev = "VerifyResponse" /\ log[5].err = NoErr
                    /\ log[6].ev = "CreateShellTransport"
                    /\ demux.tasks = 1
                    /\ (sock = "open") <=> (shell.closes = <<>>)
              /\ failed.step \in ShellSteps =>
                    /\ sock = "closed"
                    /\ log[Len(log)] = [ev |-> "close", arg |-> <<"tp.Close", "open">>]
                    /\ demux.tasks = 0 /\ demux.pc = "none"
                    /\ ret = [err |-> failed.err, val |-> <<>>]
                    /\ failed.err # NoErr

\* C15 witness: both requests were verified and CreateShellTransport failed.
C15_Witness ==
    /\ op = "RunShellCommandAsync" /\ pc = "returned"
    /\ failed.step = "CreateShellTransport"
    /\ Len(log) = 6
    /\ sock = "closed"

Opened == Cardinality({ i \in 1..Len(log) : log[i].ev = "open" })

\* C16: in RunShellCommandWithBytes (and RunShellCommand, which wraps it)
\* and RunShellCommandAsync nothing is opened or sent before the check of
\* the joined command; a blank joined command makes the method return the
\* empty-command error with no connection opened, nothing sent and no
\* Shell; for any other command newTransport is called once: the method
\* opens one connection, or none when the dial itself fails.
C16_BlankCommand ==
    op \in {"RunShellCommandWithBytes", "RunShellCommandAsync"} =>
        /\ Opened <= 1
        /\ pc = op => (log = <<>> /\ sock = "none")
        /\ (pc # op /\ BlankString(args.cmd)) =>
              /\ pc = "returned"
              /\ ret = [err |-> EmptyCommand, val |-> <<>>]
              /\ log = <<>> /\ sock = "none"
              /\ ~shell.live
        /\ (pc # op /\ ~BlankString(args.cmd)) =>
              /\ ret.err # EmptyCommand
              /\ pc # "createDeviceTransport" =>
                    (Opened = 1 \/ (Opened = 0 /\ failed.step = "newTransport"))

\* C16 witness: RunShellCommandWithBytes("", "") joins to a single space
\* and returns the empty-command error.
C16_Witness ==
    /\ op = "RunShellCommandWithBytes" /\ pc = "returned"
    /\ args = [cmd |-> <<" ">>, args |-> << <<>> >>]
    /\ ret.err = EmptyCommand
    /\ sock = "none"

\* A frame that is no exitCode frame and carries no output.
Ignored(f) ==
    \/ f.id \notin {shellStdout, shellStderr, shellExit}
    \/ f.id \in {shellStdout, shellStderr} /\ f.data = <<>>

\* C17: a step in which st.Read returns a stdin, closeStdin,
\* windowSizeChange or invalid-id frame, or a stdout/stderr frame without
\* payload, leaves the pipe and what the consumer has read as they were,
\* does not end the stream, and leaves the demultiplexer at st.Read.
C17_IgnoredFrames ==
    [][(/\ Len(demux'.arrived) = Len(demux.arrived) + 1
        /\ Ignored(demux'.arrived[Len(demux'.arrived)]))
       => (/\ pipe' = pipe
           /\ consumer' = consumer
           /\ demux'.pc = "Read"
           /\ demux'.ended = demux.ended /\ demux.ended = "no"
           /\ demux'.pwClose = demux.pwClose)]_vars

\* C17 witness: an invalid-id frame, a stdout frame without payload and a
\* closeStdin frame were read; nothing reached the stream, which is open,
\* and the demultiplexer is at st.Read.
C17_Witness ==
    /\ Len(demux.arrived) = 3
    /\ demux.arrived[1].id = shellInvalid
    /\ demux.arrived[2] = [id |-> shellStdout, data |-> <<>>]
    /\ demux.arrived[3].id = shellCloseStdin
    /\ demux.pc = "Read" /\ demux.ended = "no"
    /\ consumer.got = <<>> /\ pipe = NoPipe

\* C18: after Shell.Close the demultiplexer, as long as it has not
\* terminated, can take a step of its own, whether or not the consumer
\* reads; so it terminates once it is scheduled.
C18_DemuxNeverStuckAfterClose ==
    (shell.closes # <<>> /\ demux.pc # "done") => ENABLED newShellReader

\* C19: the copy task has made no write to dst after Logcat returned.
C19_NoWriteAfterReturn ==
    op = "Logcat" => logcat.lateWrites = 0

\* The shell:logcat request has been sent and verified.
LogcatVerified ==
    \E i \in 2..Len(log) :
        /\ log[i - 1] = Ev("Send", LogcatRequest)
        /\ log[i].ev = "VerifyResponse" /\ log[i].err = NoErr

\* C20: once the shell:logcat request is verified, Logcat stays at
\* <-exitChan until a value is sent on exitChan, whatever the copy task has
\* done meanwhile (nothing, data copied, stream ended, read or write
\* failed); it has returned only if a value was sent, and then it returned
\* nil.
C20_ReturnsOnlyOnExit ==
    (op = "Logcat" /\ LogcatVerified) =>
        /\ pc \in {"Logcat_exitChan", "Logcat_cancel", "Logcat_return", "returned"}
        /\ ~logcat.exitSent => pc = "Logcat_exitChan"
        /\ pc = "returned" =>
              /\ logcat.exitSent /\ logcat.cancelled
              /\ ret = [err |-> NoErr, val |-> <<>>]
              /\ failed = NoFail

\* C20 witness: the copy ended because dst.Write failed, and Logcat
\* returned nil after the exit signal.
C20_Witness ==
    /\ op = "Logcat" /\ pc = "returned" /\ ret.err = NoErr
    /\ LogcatVerified
    /\ logcat.pc = "done" /\ logcat.nread = 1 /\ logcat.dst = <<>>
    /\ logcat.lateWrites = 0

====
